---- MODULE Spec2Model ----
(***************************************************************************)
(* VMFS block allocator (vmfs_block.c): block address scheme, status       *)
(* query, allocate / allocate-specified / free under the on-disk metadata  *)
(* lock, and the file-block zeroizer, run by several hosts that share one  *)
(* volume.                                                                 *)
(***************************************************************************)
EXTENDS Integers, Sequences, FiniteSets, TLC

(***************************************************************************)
(* Bounds of the model.                                                    *)
(***************************************************************************)
NumEntries == 2        \* entries of each bitmap
ItemsPerEntry == 2     \* bmh.items_per_bitmap_entry
MaxOps == 2            \* allocator calls started on a shared volume
MaxOpsSeq == 3         \* allocator calls started by a single host
MaxChunks == 8         \* largest block size, in I/O chunks

Hosts == {1, 2}
NoHost == 0

(***************************************************************************)
(* Block address scheme (vmfs_block.h): an identifier of one machine word, *)
(* class tag in the top three bits, class-specific coordinates in the      *)
(* remainder.  The 32-bit word is scaled to BLK_ID_BITS bits, which keeps  *)
(* every field and every truncation of the layout.                         *)
(***************************************************************************)
VMFS_BLK_TYPE_FB == 1
VMFS_BLK_TYPE_SB == 2
VMFS_BLK_TYPE_PB == 3
VMFS_BLK_TYPE_FD == 4
BlkTypes == {VMFS_BLK_TYPE_FB, VMFS_BLK_TYPE_SB, VMFS_BLK_TYPE_PB, VMFS_BLK_TYPE_FD}

BLK_ID_BITS == 16
VMFS_BLK_SHIFT == 13   \* the tag is the top three bits
SB_ITEM_BITS == 4
PB_ITEM_BITS == 4
FD_ITEM_BITS == 6

Pow2(n) == 2 ^ n
U32(x) == x % Pow2(BLK_ID_BITS)

VMFS_BLK_TYPE(blk_id) == blk_id \div Pow2(VMFS_BLK_SHIFT)
BlkValue(blk_id) == blk_id % Pow2(VMFS_BLK_SHIFT)

VMFS_BLK_FB_ITEM(blk_id) == BlkValue(blk_id)
VMFS_BLK_FB_BUILD(item) ==
    VMFS_BLK_TYPE_FB * Pow2(VMFS_BLK_SHIFT) + (item % Pow2(VMFS_BLK_SHIFT))

VMFS_BLK_SB_ENTRY(blk_id) == BlkValue(blk_id) \div Pow2(SB_ITEM_BITS)
VMFS_BLK_SB_ITEM(blk_id) == BlkValue(blk_id) % Pow2(SB_ITEM_BITS)
VMFS_BLK_SB_BUILD(entry, item) ==
    VMFS_BLK_TYPE_SB * Pow2(VMFS_BLK_SHIFT)
      + (entry % Pow2(VMFS_BLK_SHIFT - SB_ITEM_BITS)) * Pow2(SB_ITEM_BITS)
      + (item % Pow2(SB_ITEM_BITS))

VMFS_BLK_PB_ENTRY(blk_id) == BlkValue(blk_id) \div Pow2(PB_ITEM_BITS)
VMFS_BLK_PB_ITEM(blk_id) == BlkValue(blk_id) % Pow2(PB_ITEM_BITS)
VMFS_BLK_PB_BUILD(entry, item) ==
    VMFS_BLK_TYPE_PB * Pow2(VMFS_BLK_SHIFT)
      + (entry % Pow2(VMFS_BLK_SHIFT - PB_ITEM_BITS)) * Pow2(PB_ITEM_BITS)
      + (item % Pow2(PB_ITEM_BITS))

VMFS_BLK_FD_ENTRY(blk_id) == BlkValue(blk_id) \div Pow2(FD_ITEM_BITS)
VMFS_BLK_FD_ITEM(blk_id) == BlkValue(blk_id) % Pow2(FD_ITEM_BITS)
VMFS_BLK_FD_BUILD(entry, item) ==
    VMFS_BLK_TYPE_FD * Pow2(VMFS_BLK_SHIFT)
      + (entry % Pow2(VMFS_BLK_SHIFT - FD_ITEM_BITS)) * Pow2(FD_ITEM_BITS)
      + (item % Pow2(FD_ITEM_BITS))

\* Mutant: the file descriptor case decodes with the pointer block layout.
vmfs_block_get_bitmap_info_fd_as_pb(blk_id) ==
    LET blk_type == VMFS_BLK_TYPE(blk_id) IN
    CASE blk_type = VMFS_BLK_TYPE_FB ->
           [rc |-> 0, bmp |-> VMFS_BLK_TYPE_FB, entry |-> 0,
            item |-> VMFS_BLK_FB_ITEM(blk_id)]
      [] blk_type = VMFS_BLK_TYPE_SB ->
           [rc |-> 0, bmp |-> VMFS_BLK_TYPE_SB,
            entry |-> VMFS_BLK_SB_ENTRY(blk_id),
            item |-> VMFS_BLK_SB_ITEM(blk_id)]
      [] blk_type = VMFS_BLK_TYPE_PB ->
           [rc |-> 0, bmp |-> VMFS_BLK_TYPE_PB,
            entry |-> VMFS_BLK_PB_ENTRY(blk_id),
            item |-> VMFS_BLK_PB_ITEM(blk_id)]
      [] blk_type = VMFS_BLK_TYPE_FD ->
           [rc |-> 0, bmp |-> VMFS_BLK_TYPE_FD,
            entry |-> VMFS_BLK_PB_ENTRY(blk_id),
            item |-> VMFS_BLK_PB_ITEM(blk_id)]
      [] OTHER -> [rc |-> -1, bmp |-> 0, entry |-> 0, item |-> 0]

\* Mutant: an identifier of no known class is taken for a file block.
vmfs_block_get_bitmap_info_default_fb(blk_id) ==
    LET blk_type == VMFS_BLK_TYPE(blk_id) IN
    CASE blk_type = VMFS_BLK_TYPE_SB ->
           [rc |-> 0, bmp |-> VMFS_BLK_TYPE_SB,
            entry |-> VMFS_BLK_SB_ENTRY(blk_id),
            item |-> VMFS_BLK_SB_ITEM(blk_id)]
      [] blk_type = VMFS_BLK_TYPE_PB ->
           [rc |-> 0, bmp |-> VMFS_BLK_TYPE_PB,
            entry |-> VMFS_BLK_PB_ENTRY(blk_id),
            item |-> VMFS_BLK_PB_ITEM(blk_id)]
      [] blk_type = VMFS_BLK_TYPE_FD ->
           [rc |-> 0, bmp |-> VMFS_BLK_TYPE_FD,
            entry |-> VMFS_BLK_FD_ENTRY(blk_id),
            item |-> VMFS_BLK_FD_ITEM(blk_id)]
      [] OTHER ->
           [rc |-> 0, bmp |-> VMFS_BLK_TYPE_FB, entry |-> 0,
            item |-> VMFS_BLK_FB_ITEM(blk_id)]

\* vmfs_block_get_bitmap_info: (rc, bitmap, entry, item) of a block id.
vmfs_block_get_bitmap_info(blk_id) ==
    LET blk_type == VMFS_BLK_TYPE(blk_id) IN
    CASE blk_type = VMFS_BLK_TYPE_FB ->
           [rc |-> 0, bmp |-> VMFS_BLK_TYPE_FB, entry |-> 0,
            item |-> VMFS_BLK_FB_ITEM(blk_id)]
      [] blk_type = VMFS_BLK_TYPE_SB ->
           [rc |-> 0, bmp |-> VMFS_BLK_TYPE_SB,
            entry |-> VMFS_BLK_SB_ENTRY(blk_id),
            item |-> VMFS_BLK_SB_ITEM(blk_id)]
      [] blk_type = VMFS_BLK_TYPE_PB ->
           [rc |-> 0, bmp |-> VMFS_BLK_TYPE_PB,
            entry |-> VMFS_BLK_PB_ENTRY(blk_id),
            item |-> VMFS_BLK_PB_ITEM(blk_id)]
      [] blk_type = VMFS_BLK_TYPE_FD ->
           [rc |-> 0, bmp |-> VMFS_BLK_TYPE_FD,
            entry |-> VMFS_BLK_FD_ENTRY(blk_id),
            item |-> VMFS_BLK_FD_ITEM(blk_id)]
      [] OTHER -> [rc |-> -1, bmp |-> 0, entry |-> 0, item |-> 0]

(***************************************************************************)
(* Bitmap codec (vmfs_bitmap.c).  An entry's allocation map gives each     *)
(* item 0 (free) or 1 (allocated).                                         *)
(***************************************************************************)
Items == 0 .. (ItemsPerEntry - 1)
Entries == 0 .. (NumEntries - 1)
NoEntry == [id |-> -1, bits |-> <<>>]

ItemAddr(entry, item) == U32(entry * ItemsPerEntry + item)

\* vmfs_bitmap_get_entry: the entry holding item (entry, item), read from disk.
vmfs_bitmap_get_entry(bitmap, entry, item) ==
    LET idx == ItemAddr(entry, item) \div ItemsPerEntry IN
    IF idx \in Entries
    THEN [rc |-> 0, entry |-> [id |-> idx, bits |-> bitmap[idx]]]
    ELSE [rc |-> -1, entry |-> NoEntry]

vmfs_bitmap_get_item_status(e, entry, item) ==
    e.bits[ItemAddr(entry, item) % ItemsPerEntry]

\* vmfs_bitmap_set_item_status: rejects an item already in the wanted state.
vmfs_bitmap_set_item_status(e, entry, item, status) ==
    LET i == ItemAddr(entry, item) % ItemsPerEntry IN
    IF e.bits[i] = status
    THEN [rc |-> -1, entry |-> e]
    ELSE [rc |-> 0, entry |-> [e EXCEPT !.bits[i] = status]]

FreeItems(bits) == {i \in Items : bits[i] = 0}
Min(S) == CHOOSE x \in S : \A y \in S : x <= y

\* vmfs_bitmap_find_free_items, the search: first entry with a free item.
FindCandidate(bitmap) ==
    LET C == {e \in Entries : FreeItems(bitmap[e]) # {}} IN
    IF C = {} THEN -1 ELSE Min(C)

\* vmfs_bitmap_alloc_item: takes the lowest free item of the entry.
vmfs_bitmap_alloc_item(e) ==
    IF FreeItems(e.bits) = {}
    THEN [rc |-> -1, entry |-> e, item |-> 0]
    ELSE LET i == Min(FreeItems(e.bits)) IN
         [rc |-> 0, entry |-> [e EXCEPT !.bits[i] = 1], item |-> i]

(***************************************************************************)
(* Zeroizer geometry (utils.h, vmfs_fs.h).                                 *)
(***************************************************************************)
M_DIO_BLK_SIZE == 512
BlockSizes == {k * M_DIO_BLK_SIZE : k \in 1 .. MaxChunks}

(***************************************************************************)
(* State.  disk and lock are the shared volume: the allocation map and    *)
(* the lock owner of every bitmap entry.  pc, op, loc and ret are each     *)
(* host's position, call arguments, C locals and return values.  gh is     *)
(* history: what the call in progress has done so far.                     *)
(***************************************************************************)
VARIABLES disk, lock, blocksize, nops, pc, op, loc, ret, gh

vars == <<disk, lock, blocksize, nops, pc, op, loc, ret, gh>>

NoLoc == [bmp |-> 0, blk_entry |-> 0, blk_item |-> 0, entry |-> NoEntry,
          item |-> 0, pos |-> 0]
NoRet == [rc |-> 0, blk_id |-> 0]
NoOp == [kind |-> "none", arg |-> 0, status |-> 0]

Running(h) == pc[h] \notin {"idle", "done"}

NoCall == [kind |-> "none", id |-> 0, of_alloc |-> FALSE]

\* The call h has just returned from, when it succeeded: what it did to
\* which block id, and whether it freed the id that the successful alloc
\* right before it returned.
LastCall(h) ==
    IF pc[h] = "done" /\ ret[h].rc = 0 /\ op[h].kind = "alloc"
    THEN [kind |-> "alloc", id |-> ret[h].blk_id, of_alloc |-> FALSE]
    ELSE IF pc[h] = "done" /\ ret[h].rc = 0 /\ op[h].kind = "set_status"
    THEN [kind |-> IF op[h].status = 0 THEN "free" ELSE "alloc_specified",
          id |-> op[h].arg,
          of_alloc |-> op[h].status = 0 /\ gh[h].prev.kind = "alloc"
                         /\ gh[h].prev.id = op[h].arg]
    ELSE NoCall

\* History of a call that starts now, on the disk as it is now.
NewGh(h) ==
    [acq |-> FALSE, lockfail |-> FALSE, nunlock |-> 0, nwrite |-> 0,
     wshort |-> FALSE, zlog |-> <<>>, snap |-> disk,
     conc |-> \E g \in Hosts \ {h} : Running(g), prev |-> LastCall(h),
     fails |-> {}]

\* A call by h starts: every running call of another host overlaps it.
StartGh(h) ==
    [g \in Hosts |->
       IF g = h THEN NewGh(h)
       ELSE IF Running(g) THEN [gh[g] EXCEPT !.conc = TRUE] ELSE gh[g]]

\* The same, for a call that meets the failure named at once when failed.
StartGhFail(h, failed, name) ==
    [StartGh(h) EXCEPT ![h].fails = IF failed THEN {name} ELSE {}]

Fill(v) == [c \in BlkTypes |-> [e \in Entries |-> [i \in Items |-> v]]]
FirstTaken ==
    [c \in BlkTypes |-> [e \in Entries |-> [i \in Items |-> IF i = 0 THEN 1 ELSE 0]]]
LastEntryFree ==
    [c \in BlkTypes |->
       [e \in Entries |-> [i \in Items |-> IF e = NumEntries - 1 THEN 0 ELSE 1]]]
InitDisks == {Fill(0), Fill(1), FirstTaken, LastEntryFree}

InitWith(sizes) ==
    /\ disk \in InitDisks
    /\ lock = [c \in BlkTypes |-> [e \in Entries |-> NoHost]]
    /\ blocksize \in sizes
    /\ nops = 0
    /\ pc = [h \in Hosts |-> "idle"]
    /\ op = [h \in Hosts |-> NoOp]
    /\ loc = [h \in Hosts |-> NoLoc]
    /\ ret = [h \in Hosts |-> NoRet]
    /\ gh = [h \in Hosts |->
               [acq |-> FALSE, lockfail |-> FALSE, nunlock |-> 0, nwrite |-> 0,
                wshort |-> FALSE, zlog |-> <<>>, snap |-> disk, conc |-> FALSE,
                prev |-> NoCall, fails |-> {}]]

(***************************************************************************)
(* Metadata lock (vmfs_metadata.c) and entry persistence.                  *)
(***************************************************************************)
\* vmfs_metadata_lock by h on entry (c, e): 0 and the lock taken, which needs
\* the region free, or -1 and the lock as it was.
LockResult(h, c, e, r) ==
    /\ r \in {0, -1}
    /\ r = 0 => lock[c][e] = NoHost
    /\ lock' = IF r = 0 THEN [lock EXCEPT ![c][e] = h] ELSE lock

\* vmfs_metadata_unlock by h on entry (c, e): clears the holder's lock.  Called
\* by a host that does not hold the lock it either rewrites the header as
\* free or leaves it.
Unlock(h, c, e) ==
    IF lock[c][e] = h
    THEN lock' = [lock EXCEPT ![c][e] = NoHost]
    ELSE \/ lock' = [lock EXCEPT ![c][e] = NoHost]
         \/ lock' = lock

\* vmfs_bme_update of entry e of bitmap c: the write is whole (w = 0) or
\* short (w = -1), and a short write leaves the entry on disk as it was.
vmfs_bme_update(c, e, w) ==
    /\ w \in {0, -1}
    /\ disk' = IF w = 0 THEN [disk EXCEPT ![c][e.id] = e.bits] ELSE disk

Return(h, rc, blk_id) ==
    /\ pc' = [pc EXCEPT ![h] = "done"]
    /\ ret' = [ret EXCEPT ![h] = [rc |-> rc, blk_id |-> blk_id]]

Goto(h, label) ==
    /\ pc' = [pc EXCEPT ![h] = label]
    /\ UNCHANGED ret

\* The history of h once its call has met the failure named.
Failed(h, name) == [gh EXCEPT ![h].fails = @ \cup {name}]

Startable(h, max) == pc[h] \in {"idle", "done"} /\ nops < max

(***************************************************************************)
(* vmfs_block_set_status, behind vmfs_block_alloc_specified (status 1) and *)
(* vmfs_block_free (status 0).                                             *)
(***************************************************************************)
\* The test made on the lock call's result r: !r == -1.
LockCallFailed(r) == (IF r = 0 THEN 1 ELSE 0) = -1

\* The call, and vmfs_block_get_bitmap_info on its block id.
Call_set_status(h, ids, max) ==
    /\ Startable(h, max)
    /\ \E blk_id \in ids, status \in {0, 1} :
         LET info == vmfs_block_get_bitmap_info(blk_id) IN
         /\ op' = [op EXCEPT ![h] = [kind |-> "set_status", arg |-> blk_id,
                                     status |-> status]]
         /\ loc' = [loc EXCEPT ![h] = [NoLoc EXCEPT !.bmp = info.bmp,
                                                    !.blk_entry = info.entry,
                                                    !.blk_item = info.item]]
         /\ IF info.rc = -1
            THEN Return(h, -1, 0)
            ELSE /\ pc' = [pc EXCEPT ![h] = "ss_get_entry"]
                 /\ ret' = [ret EXCEPT ![h] = NoRet]
         /\ gh' = StartGhFail(h, info.rc = -1, "UnknownBlockClass")
    /\ nops' = nops + 1
    /\ UNCHANGED <<disk, lock, blocksize>>

\* Mutant: the result of the load is not looked at, and the call goes on
\* with entry 0.
SetStatus_get_entry_unchecked(h) ==
    /\ pc[h] = "ss_get_entry"
    /\ LET r == vmfs_bitmap_get_entry(disk[loc[h].bmp], loc[h].blk_entry,
                                      loc[h].blk_item)
           e == IF r.rc = -1 THEN [id |-> 0, bits |-> disk[loc[h].bmp][0]]
                ELSE r.entry IN
       /\ Goto(h, "ss_lock") /\ loc' = [loc EXCEPT ![h].entry = e]
       /\ gh' = IF r.rc = -1 THEN Failed(h, "LoadFailed") ELSE gh
    /\ UNCHANGED <<disk, lock, blocksize, nops, op>>

\* vmfs_bitmap_get_entry: the entry is read before the lock is taken.
SetStatus_get_entry(h) ==
    /\ pc[h] = "ss_get_entry"
    /\ LET r == vmfs_bitmap_get_entry(disk[loc[h].bmp], loc[h].blk_entry,
                                      loc[h].blk_item) IN
       IF r.rc = -1
       THEN Return(h, -1, 0) /\ UNCHANGED loc /\ gh' = Failed(h, "LoadFailed")
       ELSE /\ Goto(h, "ss_lock") /\ loc' = [loc EXCEPT ![h].entry = r.entry]
            /\ UNCHANGED gh
    /\ UNCHANGED <<disk, lock, blocksize, nops, op>>

\* Mutant: the result of the change of status is not looked at.
SetStatus_lock_unchecked(h) ==
    /\ pc[h] = "ss_lock"
    /\ \E r \in {0, -1} :
         /\ LockResult(h, loc[h].bmp, loc[h].entry.id, r)
         /\ LET s == vmfs_bitmap_set_item_status(loc[h].entry,
                        loc[h].blk_entry, loc[h].blk_item, op[h].status)
                f == IF r = -1 THEN {"LockAcquisitionFailed"} ELSE {}
                m == IF ~LockCallFailed(r) /\ s.rc = -1
                     THEN {"MutationRejected"} ELSE {} IN
            /\ gh' = [gh EXCEPT ![h].acq = (r = 0), ![h].lockfail = (r = -1),
                                ![h].fails = @ \cup f \cup m]
            /\ IF LockCallFailed(r)
               THEN Return(h, -1, 0) /\ UNCHANGED loc
               ELSE /\ loc' = [loc EXCEPT ![h].entry = s.entry]
                    /\ Goto(h, "ss_update")
    /\ UNCHANGED <<disk, blocksize, nops, op>>

\* vmfs_metadata_lock and the test on its result, then the item's new status
\* set in the entry read before.
SetStatus_lock(h) ==
    /\ pc[h] = "ss_lock"
    /\ \E r \in {0, -1} :
         /\ LockResult(h, loc[h].bmp, loc[h].entry.id, r)
         /\ LET s == vmfs_bitmap_set_item_status(loc[h].entry,
                        loc[h].blk_entry, loc[h].blk_item, op[h].status)
                f == IF r = -1 THEN {"LockAcquisitionFailed"} ELSE {}
                m == IF ~LockCallFailed(r) /\ s.rc = -1
                     THEN {"MutationRejected"} ELSE {} IN
            /\ gh' = [gh EXCEPT ![h].acq = (r = 0), ![h].lockfail = (r = -1),
                                ![h].fails = @ \cup f \cup m]
            /\ IF LockCallFailed(r)
               THEN Return(h, -1, 0) /\ UNCHANGED loc
               ELSE /\ loc' = [loc EXCEPT ![h].entry = s.entry]
                    /\ Goto(h, IF s.rc = -1 THEN "ss_unlock_err" ELSE "ss_update")
    /\ UNCHANGED <<disk, blocksize, nops, op>>

\* Mutant: the error exit returns with the lock still held.
SetStatus_unlock_err_leak(h) ==
    /\ pc[h] = "ss_unlock_err"
    /\ Return(h, -1, 0)
    /\ UNCHANGED <<disk, lock, blocksize, nops, op, loc, gh>>

\* The status change was rejected: unlock and fail.
SetStatus_unlock_err(h) ==
    /\ pc[h] = "ss_unlock_err"
    /\ Unlock(h, loc[h].bmp, loc[h].entry.id)
    /\ gh' = [gh EXCEPT ![h].nunlock = @ + 1]
    /\ Return(h, -1, 0)
    /\ UNCHANGED <<disk, blocksize, nops, op, loc>>

\* vmfs_bme_update, its result not looked at.
SetStatus_update(h) ==
    /\ pc[h] = "ss_update"
    /\ \E w \in {0, -1} :
         /\ vmfs_bme_update(loc[h].bmp, loc[h].entry, w)
         /\ gh' = [gh EXCEPT ![h].nwrite = @ + 1,
                             ![h].wshort = (w = -1),
                             ![h].fails = IF w = -1 THEN @ \cup {"TruncatedWrite"}
                                          ELSE @]
    /\ Goto(h, "ss_unlock")
    /\ UNCHANGED <<lock, blocksize, nops, op, loc>>

\* vmfs_metadata_unlock, and success.
SetStatus_unlock(h) ==
    /\ pc[h] = "ss_unlock"
    /\ Unlock(h, loc[h].bmp, loc[h].entry.id)
    /\ gh' = [gh EXCEPT ![h].nunlock = @ + 1]
    /\ Return(h, 0, 0)
    /\ UNCHANGED <<disk, blocksize, nops, op, loc>>

(***************************************************************************)
(* vmfs_block_get_status.                                                  *)
(***************************************************************************)
Call_get_status(h, ids, max) ==
    /\ Startable(h, max)
    /\ \E blk_id \in ids :
         LET info == vmfs_block_get_bitmap_info(blk_id) IN
         /\ op' = [op EXCEPT ![h] = [kind |-> "get_status", arg |-> blk_id,
                                     status |-> 0]]
         /\ loc' = [loc EXCEPT ![h] = [NoLoc EXCEPT !.bmp = info.bmp,
                                                    !.blk_entry = info.entry,
                                                    !.blk_item = info.item]]
         /\ IF info.rc = -1
            THEN Return(h, -1, 0)
            ELSE /\ pc' = [pc EXCEPT ![h] = "gs_get_entry"]
                 /\ ret' = [ret EXCEPT ![h] = NoRet]
         /\ gh' = StartGhFail(h, info.rc = -1, "UnknownBlockClass")
    /\ nops' = nops + 1
    /\ UNCHANGED <<disk, lock, blocksize>>

\* Mutant: the query takes the lock of the entry it reads, when it is free.
GetStatus_get_entry_locking(h) ==
    /\ pc[h] = "gs_get_entry"
    /\ LET r == vmfs_bitmap_get_entry(disk[loc[h].bmp], loc[h].blk_entry,
                                      loc[h].blk_item) IN
       IF r.rc = -1
       THEN Return(h, -1, 0) /\ gh' = Failed(h, "LoadFailed") /\ UNCHANGED lock
       ELSE /\ Return(h, vmfs_bitmap_get_item_status(r.entry, loc[h].blk_entry,
                                                     loc[h].blk_item), 0)
            /\ lock' = IF lock[loc[h].bmp][r.entry.id] = NoHost
                       THEN [lock EXCEPT ![loc[h].bmp][r.entry.id] = h]
                       ELSE lock
            /\ UNCHANGED gh
    /\ UNCHANGED <<disk, blocksize, nops, op, loc>>

\* vmfs_bitmap_get_entry and vmfs_bitmap_get_item_status on what it read.
GetStatus_get_entry(h) ==
    /\ pc[h] = "gs_get_entry"
    /\ LET r == vmfs_bitmap_get_entry(disk[loc[h].bmp], loc[h].blk_entry,
                                      loc[h].blk_item) IN
       IF r.rc = -1
       THEN Return(h, -1, 0) /\ gh' = Failed(h, "LoadFailed")
       ELSE /\ Return(h, vmfs_bitmap_get_item_status(r.entry, loc[h].blk_entry,
                                                     loc[h].blk_item), 0)
            /\ UNCHANGED gh
    /\ UNCHANGED <<disk, lock, blocksize, nops, op, loc>>

(***************************************************************************)
(* vmfs_block_alloc.                                                       *)
(***************************************************************************)
\* Mutant: the file block id is built from the item alone.
BlkIdBuild_noentry(blk_type, entry_id, item) ==
    CASE blk_type = VMFS_BLK_TYPE_FB -> VMFS_BLK_FB_BUILD(item)
      [] blk_type = VMFS_BLK_TYPE_SB -> VMFS_BLK_SB_BUILD(entry_id, item)
      [] blk_type = VMFS_BLK_TYPE_PB -> VMFS_BLK_PB_BUILD(entry_id, item)
      [] blk_type = VMFS_BLK_TYPE_FD -> VMFS_BLK_FD_BUILD(entry_id, item)
      [] OTHER -> 0

\* Mutant: the sub-block id is built with entry and item in each other's place.
BlkIdBuild_swapped(blk_type, entry_id, item) ==
    CASE blk_type = VMFS_BLK_TYPE_FB ->
           VMFS_BLK_FB_BUILD(U32(entry_id * ItemsPerEntry + item))
      [] blk_type = VMFS_BLK_TYPE_SB -> VMFS_BLK_SB_BUILD(item, entry_id)
      [] blk_type = VMFS_BLK_TYPE_PB -> VMFS_BLK_PB_BUILD(entry_id, item)
      [] blk_type = VMFS_BLK_TYPE_FD -> VMFS_BLK_FD_BUILD(entry_id, item)
      [] OTHER -> 0

\* The block id built from the entry and item found.
BlkIdBuild(blk_type, entry_id, item) ==
    CASE blk_type = VMFS_BLK_TYPE_FB ->
           VMFS_BLK_FB_BUILD(U32(entry_id * ItemsPerEntry + item))
      [] blk_type = VMFS_BLK_TYPE_SB -> VMFS_BLK_SB_BUILD(entry_id, item)
      [] blk_type = VMFS_BLK_TYPE_PB -> VMFS_BLK_PB_BUILD(entry_id, item)
      [] blk_type = VMFS_BLK_TYPE_FD -> VMFS_BLK_FD_BUILD(entry_id, item)
      [] OTHER -> 0

\* The call, and the choice of the bitmap by block type.
Call_alloc(h, types, max) ==
    /\ Startable(h, max)
    /\ \E blk_type \in types :
         /\ op' = [op EXCEPT ![h] = [kind |-> "alloc", arg |-> blk_type,
                                     status |-> 1]]
         /\ IF blk_type \in BlkTypes
            THEN /\ loc' = [loc EXCEPT ![h] = [NoLoc EXCEPT !.bmp = blk_type]]
                 /\ pc' = [pc EXCEPT ![h] = "al_find"]
                 /\ ret' = [ret EXCEPT ![h] = NoRet]
            ELSE /\ loc' = [loc EXCEPT ![h] = NoLoc]
                 /\ Return(h, -1, 0)
         /\ gh' = StartGhFail(h, blk_type \notin BlkTypes, "UnknownBlockClass")
    /\ nops' = nops + 1
    /\ UNCHANGED <<disk, lock, blocksize>>

\* Mutant: a failed search is not looked at, and entry 0 is used.
Alloc_find_unchecked(h) ==
    /\ pc[h] = "al_find"
    /\ LET c == FindCandidate(disk[loc[h].bmp])
           e == IF c = -1 THEN 0 ELSE c IN
       /\ Goto(h, "al_lock")
       /\ loc' = [loc EXCEPT ![h].entry = [id |-> e, bits |-> disk[loc[h].bmp][e]]]
    /\ UNCHANGED <<disk, lock, blocksize, nops, op, gh>>

\* Mutant: a volume without a free item has an error code of its own.
Alloc_find_own_code(h) ==
    /\ pc[h] = "al_find"
    /\ LET c == FindCandidate(disk[loc[h].bmp]) IN
       IF c = -1
       THEN Return(h, -2, 0) /\ UNCHANGED loc
              /\ gh' = Failed(h, "NoSpaceAvailable")
       ELSE /\ Goto(h, "al_lock")
            /\ loc' = [loc EXCEPT ![h].entry =
                         [id |-> c, bits |-> disk[loc[h].bmp][c]]]
            /\ UNCHANGED gh
    /\ UNCHANGED <<disk, lock, blocksize, nops, op>>

\* vmfs_bitmap_find_free_items, the search: no entry has a free item, or the
\* first that has one is the candidate.
Alloc_find(h) ==
    /\ pc[h] = "al_find"
    /\ LET c == FindCandidate(disk[loc[h].bmp]) IN
       IF c = -1
       THEN Return(h, -1, 0) /\ UNCHANGED loc
              /\ gh' = Failed(h, "NoSpaceAvailable")
       ELSE /\ Goto(h, "al_lock")
            /\ loc' = [loc EXCEPT ![h].entry =
                         [id |-> c, bits |-> disk[loc[h].bmp][c]]]
            /\ UNCHANGED gh
    /\ UNCHANGED <<disk, lock, blocksize, nops, op>>

\* vmfs_bitmap_find_free_items, the reservation: the candidate is locked and
\* read again under the lock; then vmfs_bitmap_alloc_item on what was read.
Alloc_lock(h) ==
    /\ pc[h] = "al_lock"
    /\ \E r \in {0, -1} :
         /\ LockResult(h, loc[h].bmp, loc[h].entry.id, r)
         /\ LET e == [id |-> loc[h].entry.id,
                      bits |-> disk[loc[h].bmp][loc[h].entry.id]]
                a == vmfs_bitmap_alloc_item(e)
                f == IF r = -1 THEN {"LockAcquisitionFailed"}
                     ELSE IF a.rc = -1 THEN {"MutationRejected"} ELSE {} IN
            /\ gh' = [gh EXCEPT ![h].acq = (r = 0), ![h].lockfail = (r = -1),
                                ![h].fails = @ \cup f]
            /\ IF r = -1
               THEN Return(h, -1, 0) /\ UNCHANGED loc
               ELSE /\ loc' = [loc EXCEPT ![h].entry = a.entry,
                                          ![h].item = a.item]
                    /\ Goto(h, IF a.rc = -1 THEN "al_unlock_err"
                                ELSE "al_update")
    /\ UNCHANGED <<disk, blocksize, nops, op>>

\* No item could be taken: unlock and fail.
Alloc_unlock_err(h) ==
    /\ pc[h] = "al_unlock_err"
    /\ Unlock(h, loc[h].bmp, loc[h].entry.id)
    /\ gh' = [gh EXCEPT ![h].nunlock = @ + 1]
    /\ Return(h, -1, 0)
    /\ UNCHANGED <<disk, blocksize, nops, op, loc>>

\* vmfs_bme_update, its result not looked at.
Alloc_update(h) ==
    /\ pc[h] = "al_update"
    /\ \E w \in {0, -1} :
         /\ vmfs_bme_update(loc[h].bmp, loc[h].entry, w)
         /\ gh' = [gh EXCEPT ![h].nwrite = @ + 1,
                             ![h].wshort = (w = -1),
                             ![h].fails = IF w = -1 THEN @ \cup {"TruncatedWrite"}
                                          ELSE @]
    /\ Goto(h, "al_unlock")
    /\ UNCHANGED <<lock, blocksize, nops, op, loc>>

\* vmfs_metadata_unlock, the block id, and success.
Alloc_unlock(h) ==
    /\ pc[h] = "al_unlock"
    /\ Unlock(h, loc[h].bmp, loc[h].entry.id)
    /\ gh' = [gh EXCEPT ![h].nunlock = @ + 1]
    /\ Return(h, 0, BlkIdBuild(op[h].arg, loc[h].entry.id, loc[h].item))
    /\ UNCHANGED <<disk, blocksize, nops, op, loc>>

(***************************************************************************)
(* vmfs_block_zeroize_fb.                                                  *)
(***************************************************************************)
\* Mutant: the loop runs one turn too many.
ZeroizeMore_inclusive(pos, len) == pos <= len

\* The loop test.
ZeroizeMore(pos, len) == pos < len

\* Mutant: only an undefined class is refused.
ZeroizeWrongClass_known(blk_id) == VMFS_BLK_TYPE(blk_id) \notin BlkTypes

\* The class test.
ZeroizeWrongClass(blk_id) == VMFS_BLK_TYPE(blk_id) # VMFS_BLK_TYPE_FB

\* The call: only a file block is zeroized.
Call_zeroize_fb(h, ids, max) ==
    /\ Startable(h, max)
    /\ \E blk_id \in ids :
         /\ op' = [op EXCEPT ![h] = [kind |-> "zeroize_fb", arg |-> blk_id,
                                     status |-> 0]]
         /\ IF ZeroizeWrongClass(blk_id)
            THEN /\ loc' = [loc EXCEPT ![h] = NoLoc]
                 /\ Return(h, -1, 0)
            ELSE /\ loc' = [loc EXCEPT ![h] =
                              [NoLoc EXCEPT !.blk_item = VMFS_BLK_FB_ITEM(blk_id)]]
                 /\ pc' = [pc EXCEPT ![h] = "zf_loop"]
                 /\ ret' = [ret EXCEPT ![h] = NoRet]
         /\ gh' = StartGhFail(h, ZeroizeWrongClass(blk_id), "WrongBlockClass")
    /\ nops' = nops + 1
    /\ UNCHANGED <<disk, lock, blocksize>>

\* Mutant: only an error return of the write counts as a failure.
WriteFailed_negative(n, buf_len) == n < 0

\* The test made on the result n of vmfs_fs_write.
WriteFailed(n, buf_len) == n # buf_len

\* What vmfs_fs_write may return for buf_len bytes: all written, none, half,
\* or an error.
WriteResults(buf_len) == {buf_len, 0, buf_len \div 2, -1}

\* One turn of the loop: a chunk of zeroes written at pos, whole (n = buf_len)
\* or short; or the end of the loop.
Zeroize_loop(h) ==
    /\ pc[h] = "zf_loop"
    /\ IF ZeroizeMore(loc[h].pos, blocksize)
       THEN \E n \in WriteResults(M_DIO_BLK_SIZE) :
              /\ gh' = [gh EXCEPT ![h].zlog =
                          Append(@, [item |-> loc[h].blk_item, pos |-> loc[h].pos,
                                     len |-> M_DIO_BLK_SIZE]),
                                  ![h].fails = IF n # M_DIO_BLK_SIZE
                                               THEN @ \cup {"TruncatedWrite"}
                                               ELSE @]
              /\ IF WriteFailed(n, M_DIO_BLK_SIZE)
                 THEN Return(h, -1, 0) /\ UNCHANGED loc
                 ELSE /\ Goto(h, "zf_loop")
                      /\ loc' = [loc EXCEPT ![h].pos = @ + M_DIO_BLK_SIZE]
       ELSE Return(h, 0, 0) /\ UNCHANGED <<loc, gh>>
    /\ UNCHANGED <<disk, lock, blocksize, nops, op>>

(***************************************************************************)
(* Inputs and specifications.                                              *)
(***************************************************************************)
BadId == 5 * Pow2(VMFS_BLK_SHIFT) + 1
FbOutOfRange == VMFS_BLK_FB_BUILD(NumEntries * ItemsPerEntry)

\* Block ids and types given on a shared volume.
ConcIds == {VMFS_BLK_FB_BUILD(0), VMFS_BLK_FB_BUILD(1),
            VMFS_BLK_SB_BUILD(NumEntries - 1, 0), BadId}
ConcTypes == {VMFS_BLK_TYPE_FB, VMFS_BLK_TYPE_SB}

\* Block ids and types given by a single host.
SeqIds == {VMFS_BLK_FB_BUILD(0), VMFS_BLK_FB_BUILD(ItemsPerEntry), FbOutOfRange,
           VMFS_BLK_SB_BUILD(NumEntries - 1, 1), VMFS_BLK_PB_BUILD(0, 0),
           VMFS_BLK_FD_BUILD(0, 0), BadId}
SeqTypes == BlkTypes \cup {0}

\* Block ids given to the zeroizer.
ZeroIds == {VMFS_BLK_FB_BUILD(0), VMFS_BLK_FB_BUILD(ItemsPerEntry),
            VMFS_BLK_SB_BUILD(0, 1), VMFS_BLK_PB_BUILD(1, 0),
            VMFS_BLK_FD_BUILD(0, 0), BadId, 3}

\* Several hosts on one volume: status changes, queries and allocations.
Init == InitWith({M_DIO_BLK_SIZE})

Next ==
    \E h \in Hosts :
      \/ Call_set_status(h, ConcIds, MaxOps)
      \/ SetStatus_get_entry(h)
      \/ SetStatus_lock(h)
      \/ SetStatus_unlock_err(h)
      \/ SetStatus_update(h)
      \/ SetStatus_unlock(h)
      \/ Call_get_status(h, ConcIds, MaxOps)
      \/ GetStatus_get_entry(h)
      \/ Call_alloc(h, ConcTypes, MaxOps)
      \/ Alloc_find(h)
      \/ Alloc_lock(h)
      \/ Alloc_unlock_err(h)
      \/ Alloc_update(h)
      \/ Alloc_unlock(h)

Spec == Init /\ [][Next]_vars

\* One host alone on the volume, one call after another.  (The error exit
\* of vmfs_block_alloc after the search needs a second host, which takes the
\* candidate's last free item between the search and the reservation.)

NextSeq ==
    \/ Call_set_status(1, SeqIds, MaxOpsSeq)
    \/ SetStatus_get_entry(1)
    \/ SetStatus_lock(1)
    \/ SetStatus_unlock_err(1)
    \/ SetStatus_update(1)
    \/ SetStatus_unlock(1)
    \/ Call_get_status(1, SeqIds, MaxOpsSeq)
    \/ GetStatus_get_entry(1)
    \/ Call_alloc(1, SeqTypes, MaxOpsSeq)
    \/ Alloc_find(1)
    \/ Alloc_lock(1)
    \/ Alloc_update(1)
    \/ Alloc_unlock(1)

SpecSeq == Init /\ [][NextSeq]_vars

\* The zeroizer, on volumes of every block size.
InitZero == InitWith(BlockSizes)

NextZero ==
    \/ Call_zeroize_fb(1, ZeroIds, MaxOpsSeq)
    \/ Zeroize_loop(1)

SpecZero == InitZero /\ [][NextZero]_vars

\* The address scheme alone: an identifier built from coordinates, as
\* vmfs_block_alloc builds the one it returns, and resolved again.
ItemBits(blk_type) ==
    CASE blk_type = VMFS_BLK_TYPE_FB -> VMFS_BLK_SHIFT
      [] blk_type = VMFS_BLK_TYPE_SB -> SB_ITEM_BITS
      [] blk_type = VMFS_BLK_TYPE_PB -> PB_ITEM_BITS
      [] blk_type = VMFS_BLK_TYPE_FD -> FD_ITEM_BITS

\* The ends and the middle of a range of n values.
CoordEdges(n) == {0, n \div 2, n - 1} \cup (IF n > 1 THEN {1} ELSE {})

\* Coordinates of every class, within what its layout can encode.
AddrEntries(blk_type) == CoordEdges(Pow2(VMFS_BLK_SHIFT - ItemBits(blk_type)))
AddrItems(blk_type) == CoordEdges(Pow2(ItemBits(blk_type)))

Addr_build(h) ==
    /\ Startable(h, MaxOpsSeq)
    /\ \E blk_type \in BlkTypes :
         \E entry_id \in AddrEntries(blk_type), item \in AddrItems(blk_type) :
           /\ op' = [op EXCEPT ![h] = [kind |-> "build_resolve",
                                       arg |-> blk_type, status |-> 0]]
           /\ loc' = [loc EXCEPT ![h] =
                        [NoLoc EXCEPT !.entry = [id |-> entry_id, bits |-> <<>>],
                                      !.item = item]]
           /\ ret' = [ret EXCEPT ![h] =
                        [rc |-> 0, blk_id |-> BlkIdBuild(blk_type, entry_id, item)]]
    /\ pc' = [pc EXCEPT ![h] = "ad_resolve"]
    /\ gh' = StartGh(h)
    /\ nops' = nops + 1
    /\ UNCHANGED <<disk, lock, blocksize>>

Addr_resolve(h) ==
    /\ pc[h] = "ad_resolve"
    /\ LET info == vmfs_block_get_bitmap_info(ret[h].blk_id) IN
       /\ loc' = [loc EXCEPT ![h].bmp = info.bmp, ![h].blk_entry = info.entry,
                              ![h].blk_item = info.item]
       /\ Return(h, info.rc, ret[h].blk_id)
    /\ UNCHANGED <<disk, lock, blocksize, nops, op, gh>>

NextAddr ==
    \/ Addr_build(1)
    \/ Addr_resolve(1)

SpecAddr == Init /\ [][NextAddr]_vars

\* Several hosts on one volume that only allocate.
NextAlloc ==
    \E h \in Hosts :
      \/ Call_alloc(h, ConcTypes, MaxOps + 1)
      \/ Alloc_find(h)
      \/ Alloc_lock(h)
      \/ Alloc_unlock_err(h)
      \/ Alloc_update(h)
      \/ Alloc_unlock(h)

SpecAlloc == Init /\ [][NextAlloc]_vars

(***************************************************************************)
(* Properties.                                                             *)
(***************************************************************************)
Done(h, kind) == pc[h] = "done" /\ op[h].kind = kind
Holds(h) == \E c \in BlkTypes, e \in Entries : lock[c][e] = h

\* The status of the item a block id addresses on the volume d: 0 free,
\* 1 allocated, -1 when the id addresses nothing.
StatusIn(d, blk_id) ==
    LET info == vmfs_block_get_bitmap_info(blk_id) IN
    IF info.rc = -1 THEN -1
    ELSE LET r == vmfs_bitmap_get_entry(d[info.bmp], info.entry, info.item) IN
         IF r.rc = -1 THEN -1
         ELSE vmfs_bitmap_get_item_status(r.entry, info.entry, info.item)

\* C1: a free or alloc_specified whose lock acquisition failed returns the
\* failure and has issued no write of the entry.
C1_LockFailureBlocksMutation ==
    \A h \in Hosts :
      (Done(h, "set_status") /\ gh[h].lockfail)
        => (ret[h].rc = -1 /\ gh[h].nwrite = 0)

\* C2: a set_status or alloc that acquired the lock has called unlock exactly
\* once when it returns, on the success path and on the error paths, and no
\* call unlocks twice or returns holding a lock.
C2_UnlockOnceAfterAcquire ==
    \A h \in Hosts :
      /\ gh[h].nunlock <= 1
      /\ (pc[h] = "done" /\ op[h].kind \in {"set_status", "alloc"} /\ gh[h].acq)
           => (gh[h].nunlock = 1 /\ ~Holds(h))

\* Both hosts have returned from calls that acquired the lock, one by an
\* error exit after the acquisition and one with success.
C2_Witness ==
    \E h, g \in Hosts :
      /\ pc[h] = "done" /\ gh[h].acq /\ ret[h].rc = -1 /\ gh[h].nunlock = 1
      /\ pc[g] = "done" /\ gh[g].acq /\ ret[g].rc = 0 /\ gh[g].nunlock = 1
      /\ op[h].kind \in {"set_status", "alloc"}
      /\ op[g].kind \in {"set_status", "alloc"}

\* C3: a host about to write a bitmap entry back holds the lock of that
\* entry.
C3_PersistOnlyUnderLock ==
    \A h \in Hosts :
      pc[h] \in {"ss_update", "al_update"}
        => lock[loc[h].bmp][loc[h].entry.id] = h

\* C4: two allocs that ran concurrently on two hosts and both succeeded
\* returned different block ids.
C4_ConcurrentAllocsDistinct ==
    \A h, g \in Hosts :
      (h # g /\ Done(h, "alloc") /\ Done(g, "alloc")
         /\ ret[h].rc = 0 /\ ret[g].rc = 0 /\ gh[h].conc /\ gh[g].conc)
        => ret[h].blk_id # ret[g].blk_id

\* C5: two status changes that ran concurrently on two hosts, on different
\* items of one entry, both with the lock acquired and the entry written
\* whole, are both on disk once both have returned.
C5_NoLostUpdate ==
    \A h, g \in Hosts :
      LET ih == ItemAddr(loc[h].blk_entry, loc[h].blk_item) % ItemsPerEntry
          ig == ItemAddr(loc[g].blk_entry, loc[g].blk_item) % ItemsPerEntry IN
      (h # g /\ Done(h, "set_status") /\ Done(g, "set_status")
         /\ ret[h].rc = 0 /\ ret[g].rc = 0 /\ gh[h].conc /\ gh[g].conc
         /\ gh[h].acq /\ gh[g].acq /\ ~gh[h].wshort /\ ~gh[g].wshort
         /\ loc[h].bmp = loc[g].bmp /\ loc[h].entry.id = loc[g].entry.id
         /\ ih # ig)
        => /\ disk[loc[h].bmp][loc[h].entry.id][ih] = op[h].status
           /\ disk[loc[g].bmp][loc[g].entry.id][ig] = op[g].status

\* C6: a get_status of the id that the host's previous call, a successful
\* alloc of a file block, returned reports Allocated; a get_status of that id
\* right after a successful free of it that followed the alloc reports Free.
C6_StatusFollowsAllocAndFree ==
    \A h \in Hosts :
      (Done(h, "get_status") /\ gh[h].prev.id = op[h].arg
         /\ VMFS_BLK_TYPE(op[h].arg) = VMFS_BLK_TYPE_FB)
        => /\ gh[h].prev.kind = "alloc" => ret[h].rc = 1
           /\ (gh[h].prev.kind = "free" /\ gh[h].prev.of_alloc) => ret[h].rc = 0

\* C7: the id a successful alloc returns addresses an item that was free on
\* the volume when the call started.
C7_AllocReturnsFreeItem ==
    \A h \in Hosts :
      (Done(h, "alloc") /\ ret[h].rc = 0)
        => StatusIn(gh[h].snap, ret[h].blk_id) = 0

\* A successful alloc, after an earlier successful call, on a bitmap that
\* had allocated items when the call started.
C7_Witness ==
    /\ Done(1, "alloc") /\ ret[1].rc = 0
    /\ gh[1].prev.kind \in {"alloc", "alloc_specified", "free"}
    /\ \E e \in Entries, i \in Items : gh[1].snap[op[1].arg][e][i] = 1

\* C8: an alloc on a bitmap with no free item stops at the search: it takes
\* no lock, leaves the volume as it was, and returns failure.
C8_NoSpaceLeavesAllUnchanged ==
    \A h \in Hosts :
      (pc[h] # "idle" /\ op[h].kind = "alloc" /\ op[h].arg \in BlkTypes
         /\ FindCandidate(gh[h].snap[op[h].arg]) = -1)
        => /\ pc[h] \in {"al_find", "done"}
           /\ pc[h] = "done" => ret[h].rc = -1
           /\ disk = gh[h].snap
           /\ gh[h].nwrite = 0 /\ ~gh[h].acq /\ gh[h].nunlock = 0
           /\ \A c \in BlkTypes, e \in Entries : lock[c][e] = NoHost

\* An alloc has returned from a bitmap that had no free item.
C8_Witness ==
    /\ Done(1, "alloc") /\ op[1].arg \in BlkTypes
    /\ FindCandidate(gh[1].snap[op[1].arg]) = -1
    /\ ret[1].rc = -1

\* The writes of a whole zeroizing of block item: one chunk at every multiple
\* of the chunk size below the block size.
WholeBlockWrites(item) ==
    [k \in 1 .. (blocksize \div M_DIO_BLK_SIZE) |->
       [item |-> item, pos |-> (k - 1) * M_DIO_BLK_SIZE, len |-> M_DIO_BLK_SIZE]]

\* C9: a zeroize_file_block that returns success has written blocksize/chunk
\* chunks of chunk size at offsets 0, chunk, 2*chunk, ... of its block, and
\* none at or past the block size.
C9_ZeroizeCoversBlockExactly ==
    \A h \in Hosts :
      (Done(h, "zeroize_fb") /\ ret[h].rc = 0)
        => /\ VMFS_BLK_TYPE(op[h].arg) = VMFS_BLK_TYPE_FB
           /\ gh[h].zlog = WholeBlockWrites(VMFS_BLK_FB_ITEM(op[h].arg))
           /\ \A k \in 1 .. Len(gh[h].zlog) : gh[h].zlog[k].pos < blocksize

\* A block of eight chunks has been zeroized.
C9_Witness ==
    /\ Done(1, "zeroize_fb") /\ ret[1].rc = 0
    /\ blocksize = 8 * M_DIO_BLK_SIZE
    /\ Len(gh[1].zlog) = 8
    /\ gh[1].zlog[8].pos = 3584

\* C10: a zeroize_file_block on an id that is not a file block returns
\* failure and writes nothing.
C10_ZeroizeRefusesOtherClasses ==
    \A h \in Hosts :
      (pc[h] # "idle" /\ op[h].kind = "zeroize_fb"
         /\ VMFS_BLK_TYPE(op[h].arg) # VMFS_BLK_TYPE_FB)
        => (pc[h] = "done" /\ ret[h].rc = -1 /\ gh[h].zlog = <<>>)

\* The zeroizer has refused a sub-block id.
C10_Witness ==
    /\ Done(1, "zeroize_fb") /\ ret[1].rc = -1
    /\ VMFS_BLK_TYPE(op[1].arg) = VMFS_BLK_TYPE_SB
    /\ gh[1].zlog = <<>>

\* C11: once a write of the zeroizer was short the call has returned
\* failure: the short write is the last one issued, and no offset is written
\* twice.
C11_ShortWriteStopsZeroize ==
    \A h \in Hosts :
      (op[h].kind = "zeroize_fb" /\ "TruncatedWrite" \in gh[h].fails)
        => /\ pc[h] = "done" /\ ret[h].rc = -1
           /\ gh[h].zlog[Len(gh[h].zlog)].pos = loc[h].pos
           /\ \A j, k \in 1 .. Len(gh[h].zlog) :
                j < k => gh[h].zlog[j].pos < gh[h].zlog[k].pos

\* The second write of a block of more than two chunks was short.
C11_Witness ==
    /\ Done(1, "zeroize_fb") /\ ret[1].rc = -1
    /\ "TruncatedWrite" \in gh[1].fails
    /\ Len(gh[1].zlog) = 2
    /\ blocksize > 2 * M_DIO_BLK_SIZE

\* C12: a set_status or alloc whose write of the entry was short returns the
\* failure, and returns without holding the lock.
C12_PersistFailureIsReturned ==
    \A h \in Hosts :
      (pc[h] = "done" /\ op[h].kind \in {"set_status", "alloc"} /\ gh[h].wshort)
        => (ret[h].rc = -1 /\ ~Holds(h))

\* C13: an identifier built from coordinates within the encodable range of
\* its class resolves to the bitmap of that class and to the same entry and
\* item; a file block resolves to entry 0 and its item.
C13_BuildResolveRoundTrip ==
    \A h \in Hosts :
      Done(h, "build_resolve")
        => /\ ret[h].rc = 0
           /\ loc[h].bmp = op[h].arg
           /\ loc[h].blk_entry = loc[h].entry.id
           /\ loc[h].blk_item = loc[h].item

\* The largest file descriptor coordinates came back.
C13_Witness ==
    /\ Done(1, "build_resolve") /\ op[1].arg = VMFS_BLK_TYPE_FD
    /\ loc[1].entry.id = Pow2(VMFS_BLK_SHIFT - FD_ITEM_BITS) - 1
    /\ loc[1].item = Pow2(FD_ITEM_BITS) - 1
    /\ loc[1].blk_entry = loc[1].entry.id /\ loc[1].blk_item = loc[1].item

\* A call given a block identifier, or a class, of none of the four classes.
UnknownClassCall(h) ==
    \/ /\ op[h].kind \in {"set_status", "get_status"}
       /\ VMFS_BLK_TYPE(op[h].arg) \notin BlkTypes
    \/ /\ op[h].kind = "alloc"
       /\ op[h].arg \notin BlkTypes

\* C14: a status call on an identifier of no known class, and an alloc of
\* no known class, have failed as soon as they are made, for that cause
\* alone: no entry was loaded, no lock or unlock call made, nothing written.
C14_UnknownClassTouchesNothing ==
    \A h \in Hosts :
      UnknownClassCall(h)
        => /\ pc[h] = "done" /\ ret[h].rc = -1
           /\ gh[h].fails = {"UnknownBlockClass"}
           /\ loc[h].entry = NoEntry
           /\ ~gh[h].acq /\ ~gh[h].lockfail /\ gh[h].nunlock = 0
           /\ gh[h].nwrite = 0 /\ disk = gh[h].snap
           /\ \A c \in BlkTypes, e \in Entries : lock[c][e] = NoHost

\* A status change of an identifier of no known class has been refused,
\* right after an alloc that succeeded.
C14_Witness ==
    /\ UnknownClassCall(1) /\ pc[1] = "done" /\ op[1].kind = "set_status"
    /\ gh[1].prev.kind = "alloc"

\* The call of h has returned for one cause of failure alone.
FailedFor(h) ==
    /\ pc[h] = "done" /\ Cardinality(gh[h].fails) = 1
    /\ gh[h].fails \subseteq {"UnknownBlockClass", "NoSpaceAvailable",
                              "LockAcquisitionFailed", "MutationRejected",
                              "TruncatedWrite"}

\* C15 as stated: two calls that failed for different causes returned
\* different signals.
C15_FailuresAreDistinctSignals ==
    \A h, g \in Hosts :
      (FailedFor(h) /\ FailedFor(g) /\ gh[h].fails # gh[g].fails)
        => ret[h] # ret[g]

\* The call of h has met a failure that the code reports: an unknown class, a
\* failed load, a rejected change of status, no space, or alloc's search not
\* getting the lock.
ReportedFailure(h) ==
    /\ pc[h] = "done"
    /\ \/ gh[h].fails \cap {"UnknownBlockClass", "LoadFailed", "MutationRejected",
                             "NoSpaceAvailable"} # {}
       \/ op[h].kind = "alloc" /\ "LockAcquisitionFailed" \in gh[h].fails

\* C15, amended: every failure that a call reports is reported as the one
\* value -1 with no block id, the same for every cause.
C15_FailuresShareOneSignal ==
    \A h, g \in Hosts :
      (ReportedFailure(h) /\ ReportedFailure(g))
        => (ret[h].rc = -1 /\ ret[g] = ret[h])

\* A rejected change of status on one host and a full volume on the other:
\* the same result.
C15_Witness ==
    /\ FailedFor(1) /\ gh[1].fails = {"MutationRejected"}
    /\ FailedFor(2) /\ gh[2].fails = {"NoSpaceAvailable"}
    /\ ret[1] = ret[2]

\* A step of a get_status call of h: the call with the resolution of its
\* block id, or the load of the entry and the answer.
GetStatusStep(h) ==
    \/ pc[h] = "gs_get_entry" /\ pc'[h] = "done"
    \/ /\ pc[h] \in {"idle", "done"} /\ nops' = nops + 1
       /\ op'[h].kind = "get_status"
       /\ pc'[h] \in {"gs_get_entry", "done"}
       /\ \A g \in Hosts \ {h} : op'[g] = op[g] /\ pc'[g] = pc[g]

\* C16: no step of get_status changes the lock of any entry, or the volume.
C16_GetStatusTakesNoLock ==
    [][\A h \in Hosts : GetStatusStep(h) => (lock' = lock /\ disk' = disk)]_vars

\* A query has answered for an entry that the other host holds locked.
C16_Witness ==
    /\ Done(1, "get_status") /\ ret[1].rc \in {0, 1}
    /\ \E e \in Entries : lock[loc[1].bmp][e] = 2
    /\ ~gh[1].acq /\ ~gh[1].lockfail /\ gh[1].nunlock = 0 /\ gh[1].nwrite = 0

\* The entry and the item within it that a block id addresses.
Addressed(blk_id) ==
    LET info == vmfs_block_get_bitmap_info(blk_id)
        a == ItemAddr(info.entry, info.item) IN
    [bmp |-> info.bmp, entry |-> a \div ItemsPerEntry, item |-> a % ItemsPerEntry]

\* Item i of entry e is free in the bitmap, no entry before e has a free
\* item, and no item of e before i is free.
IsFirstFree(bitmap, e, i) ==
    /\ e \in Entries /\ i \in Items /\ bitmap[e][i] = 0
    /\ \A e2 \in Entries, i2 \in Items :
         bitmap[e2][i2] = 0 => (e < e2 \/ (e = e2 /\ i <= i2))

\* C17: the id a successful alloc returns addresses, in the bitmap of its
\* class as it was when the call started, the lowest free item of the first
\* entry that has a free item.
C17_AllocIsFirstFit ==
    \A h \in Hosts :
      (Done(h, "alloc") /\ ret[h].rc = 0)
        => LET a == Addressed(ret[h].blk_id) IN
           /\ a.bmp = op[h].arg
           /\ IsFirstFree(gh[h].snap[a.bmp], a.entry, a.item)

\* An alloc passed over a full first entry and a taken first item.
C17_Witness ==
    /\ Done(1, "alloc") /\ ret[1].rc = 0
    /\ Addressed(ret[1].blk_id).entry > 0
    /\ Addressed(ret[1].blk_id).item > 0
    /\ \A i \in Items : gh[1].snap[op[1].arg][0][i] = 1

\* The block id of h's set_status does not resolve, or addresses an entry
\* that the bitmap cannot load.
UnloadableId(h) ==
    LET info == vmfs_block_get_bitmap_info(op[h].arg) IN
    /\ op[h].kind = "set_status"
    /\ \/ info.rc = -1
       \/ vmfs_bitmap_get_entry(gh[h].snap[info.bmp], info.entry, info.item).rc = -1

\* C18: a set_status whose block id does not resolve or whose entry does not
\* load never gets past the load: it returns failure having made no lock
\* call and no unlock call and having written nothing.
C18_EarlyFailureBeforeLock ==
    \A h \in Hosts :
      UnloadableId(h)
        => /\ pc[h] \in {"ss_get_entry", "done"}
           /\ pc[h] = "done" => ret[h].rc = -1
           /\ ~gh[h].acq /\ ~gh[h].lockfail /\ gh[h].nunlock = 0
           /\ gh[h].nwrite = 0 /\ disk = gh[h].snap
           /\ \A c \in BlkTypes, e \in Entries : lock[c][e] = NoHost

\* A set_status has returned for an entry that could not be loaded.
C18_Witness ==
    /\ Done(1, "set_status") /\ UnloadableId(1)
    /\ gh[1].fails = {"LoadFailed"} /\ ret[1].rc = -1

\* C19: a host about to call unlock on an entry holds the lock of that entry.
C19_UnlockOnlyByHolder ==
    \A h \in Hosts :
      pc[h] \in {"ss_unlock", "ss_unlock_err", "al_unlock", "al_unlock_err"}
        => lock[loc[h].bmp][loc[h].entry.id] = h

\* C20: a set_status whose change of status was rejected, and an alloc that
\* found no item to take in the entry it reserved, go to the unlock of the
\* error exit: they write no entry and return failure.
C20_RejectedMutationNotPersisted ==
    \A h \in Hosts :
      "MutationRejected" \in gh[h].fails
        => /\ pc[h] \in {"ss_unlock_err", "al_unlock_err", "done"}
           /\ pc[h] = "done" => ret[h].rc = -1
           /\ gh[h].nwrite = 0 /\ ~gh[h].wshort
           /\ (\A g \in Hosts \ {h} : pc[g] = "idle") => disk = gh[h].snap

\* A free of an item that was free already: rejected under the lock, which
\* was released.
C20_Witness ==
    /\ Done(1, "set_status") /\ op[1].status = 0
    /\ gh[1].fails = {"MutationRejected"}
    /\ gh[1].acq /\ gh[1].nunlock = 1 /\ ret[1].rc = -1
    /\ disk = gh[1].snap

====
